---- MODULE Spec2Model ----
(***************************************************************************)
(* Model of package order (business/data/order/order.go): sort directions, *)
(* whitelisted fields, the FieldSet, order.Parse and By.Clause.             *)
(*                                                                         *)
(* A Go string is modelled as a sequence of one-character strings, so that *)
(* strings.Split, strings.Trim and string concatenation are computed        *)
(* character by character.                                                  *)
(***************************************************************************)
EXTENDS Integers, Sequences, FiniteSets, TLC

VARIABLES
    fields,        \* the caller's Field values, in the order handed to NewFieldSet
    fs,            \* FieldSet.fields: map public name -> Field (copied values)
    directions,    \* package variable directions: map token -> Direction
    defaultOrder,  \* the default By the service declares for the entity
    r,             \* the request being served; r.orderBy is its orderBy query value
    v,             \* local v of the last Parse call
    by,            \* first result of the last Parse call
    err,           \* second result of the last Parse call
    clause,        \* results of the last Clause call
    ret,           \* result of the last AddStorageField call
    pc             \* "idle": no Parse call yet; "parsed": Parse returned;
                   \* "rendered": Clause was called on the By that Parse returned

vars == <<fields, fs, directions, defaultOrder, r, v, by, err, clause, ret, pc>>

----------------------------------------------------------------------------
(* Bounds of the model *)

\* longest list of Fields handed to NewFieldSet
MaxFields == 2

----------------------------------------------------------------------------
(* Directions *)

ASC == [name |-> <<"A", "S", "C">>]

DESC == [name |-> <<"D", "E", "S", "C">>]

\* the zero value Direction{}
ZeroDirection == [name |-> <<>>]

\* var directions = map[string]Direction{ASC.name: ASC, DESC.name: DESC}
directionsTable == [n \in {ASC.name, DESC.name} |-> IF n = ASC.name THEN ASC ELSE DESC]

parseDirectionLenient(value) ==
    IF value \in DOMAIN directions
    THEN [val |-> directions[value], err |-> "nil"]
    ELSE [val |-> ASC, err |-> "nil"]

parseDirection(value) ==
    IF value \in DOMAIN directions
    THEN [val |-> directions[value], err |-> "nil"]
    ELSE [val |-> ZeroDirection, err |-> "invalid direction"]

----------------------------------------------------------------------------
(* Fields and the FieldSet *)

\* the zero value Field{}
ZeroField == [name |-> <<>>, storage |-> <<>>]

NewField(name) == [name |-> name, storage |-> <<>>]

\* f.storage = name; return *f   (the value of the receiver after the call)
AddStorageField(f, name) == [f EXCEPT !.storage = name]

\* m[key] = value on a Go map
MapPut(m, key, value) ==
    [k \in DOMAIN m \cup {key} |-> IF k = key THEN value ELSE m[k]]

\* the range loop of NewFieldSet over fields[i..], writing into m
RECURSIVE FieldSetLoop(_, _, _)
FieldSetLoop(flds, i, m) ==
    IF i > Len(flds) THEN m
    ELSE FieldSetLoop(flds, i + 1, MapPut(m, flds[i].name, flds[i]))

\* the same loop, keeping an entry that is already present
RECURSIVE FirstWinsLoop(_, _, _)
FirstWinsLoop(flds, i, m) ==
    IF i > Len(flds) THEN m
    ELSE FirstWinsLoop(flds, i + 1,
             IF flds[i].name \in DOMAIN m THEN m ELSE MapPut(m, flds[i].name, flds[i]))

NewFieldSetFirstWins(flds) == FirstWinsLoop(flds, 1, <<>>)

NewFieldSet(flds) == FieldSetLoop(flds, 1, <<>>)

parseFieldUnchecked(set, field) ==
    IF field \in DOMAIN set
    THEN [val |-> set[field], err |-> "nil"]
    ELSE [val |-> [name |-> field, storage |-> field], err |-> "nil"]

parseField(set, field) ==
    IF field \in DOMAIN set
    THEN [val |-> set[field], err |-> "nil"]
    ELSE [val |-> ZeroField, err |-> "not found"]

----------------------------------------------------------------------------
(* By *)

NewBy(field, direction) == [field |-> field, direction |-> direction]

\* the zero value By{}
ZeroBy == NewBy(ZeroField, ZeroDirection)

ClausePublicName(b) ==
    [val |-> b.field.name \o <<" ">> \o b.direction.name, err |-> "nil"]

Clause(b) ==
    [val |-> b.field.storage \o <<" ">> \o b.direction.name, err |-> "nil"]

----------------------------------------------------------------------------
(* strings.Split and strings.Trim *)

\* strings.Index for a one-character separator; 0 when absent
Index(s, sep) ==
    IF \E i \in DOMAIN s : s[i] = sep
    THEN CHOOSE i \in DOMAIN s : s[i] = sep /\ \A k \in 1..(i - 1) : s[k] # sep
    ELSE 0

RECURSIVE SplitRec(_, _)
SplitRec(s, sep) ==
    LET i == Index(s, sep) IN
    IF i = 0 THEN <<s>>
    ELSE <<SubSeq(s, 1, i - 1)>> \o SplitRec(SubSeq(s, i + 1, Len(s)), sep)

\* strings.SplitN(s, sep, 2): at most two parts
SplitAtMostTwo(s, sep) ==
    LET i == Index(s, sep) IN
    IF i = 0 THEN <<s>>
    ELSE <<SubSeq(s, 1, i - 1), SubSeq(s, i + 1, Len(s))>>

Split(s, sep) == SplitRec(s, sep)

RECURSIVE TrimLeftRec(_, _)
TrimLeftRec(s, cutset) ==
    IF Len(s) > 0 /\ s[1] \in cutset THEN TrimLeftRec(Tail(s), cutset) ELSE s

RECURSIVE TrimRightRec(_, _)
TrimRightRec(s, cutset) ==
    IF Len(s) > 0 /\ s[Len(s)] \in cutset
    THEN TrimRightRec(SubSeq(s, 1, Len(s) - 1), cutset)
    ELSE s

TrimLeftOnly(s, cutset) == TrimLeftRec(s, cutset)

TrimRightOnly(s, cutset) == TrimRightRec(s, cutset)

\* strings.Trim(s, cutset); cutset is the set of characters of the cutset string
Trim(s, cutset) == TrimLeftRec(TrimRightRec(s, cutset), cutset)

----------------------------------------------------------------------------
(* Errors *)

\* a nil error
Nil == <<>>

\* validate.NewFieldsError(field, err): a FieldErrors holding one FieldError
\* with the offending field and the text of err
NewFieldsError(field, e) == <<[field |-> field, err |-> e]>>

----------------------------------------------------------------------------
(* Parse *)

\* Parse that goes on to split an empty value
ParseNoDefault(value, orderingFields, defOrder) ==
    LET orderParts == Split(value, ",") IN
    IF Len(orderParts) = 1 THEN
        LET f == parseField(orderingFields, Trim(orderParts[1], {" "})) IN
        IF f.err # "nil"
        THEN [by |-> ZeroBy, err |-> NewFieldsError(value, "parsing fields")]
        ELSE [by |-> NewBy(f.val, ASC), err |-> Nil]
    ELSE IF Len(orderParts) = 2 THEN
        LET f == parseField(orderingFields, Trim(orderParts[1], {" "}))
            d == parseDirection(Trim(orderParts[2], {" "})) IN
        IF f.err # "nil"
        THEN [by |-> ZeroBy, err |-> NewFieldsError(value, "parsing fields")]
        ELSE IF d.err # "nil"
        THEN [by |-> ZeroBy, err |-> NewFieldsError(value, "parsing direction")]
        ELSE [by |-> NewBy(f.val, d.val), err |-> Nil]
    ELSE [by |-> ZeroBy, err |-> NewFieldsError(value, "unknown order field")]

\* Parse that looks at the direction before the field
ParseDirectionFirst(value, orderingFields, defOrder) ==
    IF value = <<>> THEN [by |-> defOrder, err |-> Nil]
    ELSE
    LET orderParts == Split(value, ",") IN
    IF Len(orderParts) = 1 THEN
        LET f == parseField(orderingFields, Trim(orderParts[1], {" "})) IN
        IF f.err # "nil"
        THEN [by |-> ZeroBy, err |-> NewFieldsError(value, "parsing fields")]
        ELSE [by |-> NewBy(f.val, ASC), err |-> Nil]
    ELSE IF Len(orderParts) = 2 THEN
        LET f == parseField(orderingFields, Trim(orderParts[1], {" "}))
            d == parseDirection(Trim(orderParts[2], {" "})) IN
        IF d.err # "nil"
        THEN [by |-> ZeroBy, err |-> NewFieldsError(value, "parsing direction")]
        ELSE IF f.err # "nil"
        THEN [by |-> ZeroBy, err |-> NewFieldsError(value, "parsing fields")]
        ELSE [by |-> NewBy(f.val, d.val), err |-> Nil]
    ELSE [by |-> ZeroBy, err |-> NewFieldsError(value, "unknown order field")]

\* Parse(r, orderingFields, defaultOrder), value being the orderBy query value
Parse(value, orderingFields, defOrder) ==
    IF value = <<>> THEN [by |-> defOrder, err |-> Nil]
    ELSE
    LET orderParts == Split(value, ",") IN
    IF Len(orderParts) = 1 THEN
        LET f == parseField(orderingFields, Trim(orderParts[1], {" "})) IN
        IF f.err # "nil"
        THEN [by |-> ZeroBy, err |-> NewFieldsError(value, "parsing fields")]
        ELSE [by |-> NewBy(f.val, ASC), err |-> Nil]
    ELSE IF Len(orderParts) = 2 THEN
        LET f == parseField(orderingFields, Trim(orderParts[1], {" "}))
            d == parseDirection(Trim(orderParts[2], {" "})) IN
        IF f.err # "nil"
        THEN [by |-> ZeroBy, err |-> NewFieldsError(value, "parsing fields")]
        ELSE IF d.err # "nil"
        THEN [by |-> ZeroBy, err |-> NewFieldsError(value, "parsing direction")]
        ELSE [by |-> NewBy(f.val, d.val), err |-> Nil]
    ELSE [by |-> ZeroBy, err |-> NewFieldsError(value, "unknown order field")]

----------------------------------------------------------------------------
(* Inputs *)

\* public names given to NewField: plain, with a leading space, empty, a comma
Names == {<<"a">>, <<" ", "a">>, <<>>, <<",">>}

\* storage identifiers given to AddStorageField at service definition
StorageNames == {<<"x">>, <<"a">>}

FieldValues == {AddStorageField(NewField(n), s) : n \in Names, s \in StorageNames}

FieldLists == UNION {[1..k -> FieldValues] : k \in 0..MaxFields}

\* default orders: a By built by NewBy, and the zero value By{}
Defaults == {NewBy(AddStorageField(NewField(<<"a">>), <<"x">>), DESC), ZeroBy}

\* tokens a caller writes between the commas of the orderBy value
Tokens == {<<"a">>, <<"z">>, <<>>, ASC.name, DESC.name,
           <<"d", "e", "s", "c">>, <<"A", "s", "c">>}

PlainTokens == {<<"a">>, <<>>, ASC.name, DESC.name}

Pads == {<<>>, <<" ">>}

Segments == {l \o t \o r0 : l \in Pads, t \in Tokens, r0 \in Pads}

\* orderBy values whose tokens are surrounded by a tab character
TabDirectives ==
    {<<"\t", "a">>, <<"a", "\t">>, <<"a", ",", "\t">> \o DESC.name,
     <<"a", "\t", ",">> \o ASC.name}

\* orderBy values: empty, one token, two tokens, three tokens
Directives ==
    {<<>>} \cup Segments \cup TabDirectives
    \cup {s1 \o <<",">> \o s2 : s1 \in Segments, s2 \in Segments}
    \cup {t1 \o <<",">> \o t2 \o <<",">> \o t3 :
             t1 \in PlainTokens, t2 \in PlainTokens, t3 \in PlainTokens}

Requests == [orderBy : Directives]

\* the Fields of a service that goes on modifying them while it serves requests
LateFieldValues == {AddStorageField(NewField(n), <<"x">>) : n \in {<<"a">>, <<>>}}

LateFieldLists == UNION {[1..k -> LateFieldValues] : k \in 0..MaxFields}

\* storage identifiers given to AddStorageField after the FieldSet is built
LateStorageNames == {<<"x">>, <<"y">>}

\* orderBy values of the requests served meanwhile
LateDirectives ==
    {<<>>, <<"a">>, <<" ", "a", " ">>, <<"a", ",">> \o DESC.name,
     <<",">> \o ASC.name, <<"a", ",", "z">>}

LateRequests == [orderBy : LateDirectives]

----------------------------------------------------------------------------
(* State machine *)

\* no Clause call has been made on the current By
NoClause == [val |-> <<>>, err |-> "none"]

\* the service is defined (the Fields are built and copied into the FieldSet,
\* the default order is declared) and a request has arrived
Defined(lists, requests) ==
    /\ fields \in lists
    /\ fs = NewFieldSet(fields)
    /\ directions = directionsTable
    /\ defaultOrder \in Defaults
    /\ r \in requests
    /\ v = <<>>
    /\ by = ZeroBy
    /\ err = Nil
    /\ clause = NoClause
    /\ ret = ZeroField
    /\ pc = "idle"

Init == Defined(FieldLists, Requests)

InitLate == Defined(LateFieldLists, LateRequests)

\* by, err := order.Parse(r, fs, defaultOrder)
ParseCall ==
    LET res == Parse(r.orderBy, fs, defaultOrder) IN
    /\ v' = r.orderBy
    /\ by' = res.by
    /\ err' = res.err
    /\ clause' = NoClause
    /\ pc' = "parsed"
    /\ UNCHANGED <<fields, fs, directions, defaultOrder, r, ret>>

\* by.Clause() on the By of the last Parse call
ClauseCall ==
    /\ pc = "parsed"
    /\ clause' = Clause(by)
    /\ pc' = "rendered"
    /\ UNCHANGED <<fields, fs, directions, defaultOrder, r, v, by, err, ret>>

\* AddStorageField writing through to the entry of the FieldSet
AddStorageFieldShared ==
    \E i \in DOMAIN fields, name \in LateStorageNames :
        /\ fields' = [fields EXCEPT ![i] = AddStorageField(@, name)]
        /\ ret' = fields'[i]
        /\ fs' = MapPut(fs, fields[i].name, fields'[i])
        /\ UNCHANGED <<directions, defaultOrder, r, v, by, err, clause, pc>>

\* fields[i].AddStorageField(name) on a Field the caller still holds
AddStorageFieldCall ==
    \E i \in DOMAIN fields, name \in LateStorageNames :
        /\ fields' = [fields EXCEPT ![i] = AddStorageField(@, name)]
        /\ ret' = fields'[i]
        /\ UNCHANGED <<fs, directions, defaultOrder, r, v, by, err, clause, pc>>

\* the next request arrives
Request ==
    /\ r' \in LateRequests
    /\ r' # r
    /\ UNCHANGED <<fields, fs, directions, defaultOrder, v, by, err, clause, ret, pc>>

Next == ParseCall \/ ClauseCall

Spec == Init /\ [][Next]_vars

NextLate == Request \/ ParseCall \/ ClauseCall \/ AddStorageFieldCall

LateSpec == InitLate /\ [][NextLate]_vars

----------------------------------------------------------------------------
(* Vocabulary of the properties, defined on the text of the orderBy value  *)
(* independently of the operators above                                     *)

CommaPositions(s) == {i \in DOMAIN s : s[i] = ","}

NumCommas(s) == Cardinality(CommaPositions(s))

\* position of the n-th comma of s
NthComma(s, n) ==
    CHOOSE i \in CommaPositions(s) : Cardinality({j \in CommaPositions(s) : j < i}) = n - 1

\* the k-th token of s, the tokens being the texts between the commas
Token(s, k) ==
    LET first == IF k = 1 THEN 1 ELSE NthComma(s, k - 1) + 1
        last  == IF k = NumCommas(s) + 1 THEN Len(s) ELSE NthComma(s, k) - 1
    IN SubSeq(s, first, last)

\* s without the characters of ws that surround it
Strip(s, ws) ==
    IF \A i \in DOMAIN s : s[i] \in ws THEN <<>>
    ELSE LET first == CHOOSE i \in DOMAIN s :
                          s[i] \notin ws /\ \A k \in 1..(i - 1) : s[k] \in ws
             last  == CHOOSE i \in DOMAIN s :
                          s[i] \notin ws /\ \A k \in (i + 1)..Len(s) : s[k] \in ws
         IN SubSeq(s, first, last)

RECURSIVE JoinStripped(_, _, _)
JoinStripped(s, k, ws) ==
    Strip(Token(s, k), ws)
        \o (IF k <= NumCommas(s) THEN <<",">> \o JoinStripped(s, k + 1, ws) ELSE <<>>)

\* the directive s without the characters of ws that surround its tokens
Unpadded(s, ws) == JoinStripped(s, 1, ws)

Space == {" "}

Whitespace == {" ", "\t"}

\* a public name that a directive can spell: no comma, no surrounding space
Plain(n) == NumCommas(n) = 0 /\ Strip(n, Space) = n

\* the directive "publicName,TOKEN"
Canonical(n, d) == n \o <<",">> \o d.name

\* what a caller observes of a Parse call: the By, and the reason of the error
Outcome(b, e) == [by |-> b, reason |-> IF e = Nil THEN "" ELSE e[1].err]

Fragment(f, d) == f.storage \o <<" ">> \o d.name

\* the Fields held by the FieldSet
Members == {fs[n] : n \in DOMAIN fs}

\* index of the last Field of the list whose public name is n
LastIndex(n) ==
    CHOOSE i \in DOMAIN fields :
        fields[i].name = n /\ \A j \in (i + 1)..Len(fields) : fields[j].name # n

Duplicated(n) == Cardinality({i \in DOMAIN fields : fields[i].name = n}) >= 2

----------------------------------------------------------------------------
(* Properties *)

\* C1 (as stated): for every Field of the FieldSet and every direction d, Parse
\* of publicName + "," + token(d) succeeds with By(Field, d), and Clause of it
\* is storage + " " + token(d).
C1_EveryField ==
    \A n \in DOMAIN fs, d \in {ASC, DESC} :
        (pc # "idle" /\ v = Canonical(n, d)) =>
            /\ err = Nil
            /\ by = NewBy(fs[n], d)
            /\ pc = "rendered" => clause = [val |-> Fragment(fs[n], d), err |-> "nil"]

\* C1 (amended): the same for every Field of the FieldSet whose public name
\* holds no comma and neither begins nor ends with a space.
C1_PlainField ==
    \A n \in DOMAIN fs, d \in {ASC, DESC} :
        (pc # "idle" /\ Plain(n) /\ v = Canonical(n, d)) =>
            /\ err = Nil
            /\ by = NewBy(fs[n], d)
            /\ pc = "rendered" => clause = [val |-> Fragment(fs[n], d), err |-> "nil"]

C1_Witness ==
    /\ pc = "rendered"
    /\ \E n \in DOMAIN fs :
        /\ Plain(n)
        /\ v = Canonical(n, DESC)
        /\ fs[n].storage # n
        /\ clause.val = Fragment(fs[n], DESC)

\* C2: the fragment rendered from a By that Parse returned for a non-empty
\* directive is "<storage> <ASC|DESC>" for the storage identifier of a member
\* of the FieldSet, it is not the public name in place of the storage
\* identifier when the two differ, and Clause returns no error.
C2_OnlyStorageRendered ==
    /\ pc = "rendered" => clause.err = "nil"
    /\ (pc = "rendered" /\ err = Nil /\ v # <<>>) =>
           \E f \in Members, d \in {ASC, DESC} :
               /\ by = NewBy(f, d)
               /\ clause.val = Fragment(f, d)
               /\ f.name # f.storage => clause.val # f.name \o <<" ">> \o d.name

C2_Witness ==
    /\ pc = "rendered"
    /\ err = Nil
    /\ v # <<>>
    /\ by.field.name # by.field.storage
    /\ by.field \in Members
    /\ clause.val = by.field.storage \o <<" ">> \o DESC.name

\* C3: Parse of the empty directive succeeds and returns the default By as it
\* is, whether or not its field is in the FieldSet and its direction is known.
C3_EmptyReturnsDefault ==
    (pc # "idle" /\ v = <<>>) => (err = Nil /\ by = defaultOrder)

C3_Witness ==
    /\ pc = "parsed"
    /\ v = <<>>
    /\ fs # <<>>
    /\ defaultOrder.field \notin Members
    /\ defaultOrder.direction \notin {ASC, DESC}
    /\ by = defaultOrder

\* C4 (as stated): for any directive without a comma whose trimmed text is a
\* public name of the FieldSet, Parse succeeds with By(that Field, ASC).
C4_SingleTokenAscending ==
    (pc # "idle" /\ NumCommas(v) = 0 /\ Strip(v, Space) \in DOMAIN fs) =>
        (err = Nil /\ by = NewBy(fs[Strip(v, Space)], ASC))

\* C4 (amended): the same for any non-empty directive.
C4_NonEmptySingleTokenAscending ==
    (pc # "idle" /\ v # <<>> /\ NumCommas(v) = 0 /\ Strip(v, Space) \in DOMAIN fs) =>
        (err = Nil /\ by = NewBy(fs[Strip(v, Space)], ASC))

C4_Witness ==
    /\ pc = "parsed"
    /\ NumCommas(v) = 0
    /\ Strip(v, Space) # v
    /\ Strip(v, Space) \in DOMAIN fs
    /\ defaultOrder.direction = DESC
    /\ by.direction = ASC

\* C5: for a non-empty directive with at most one comma whose trimmed first
\* token is not a public name of the FieldSet, Parse fails with the error that
\* carries the raw directive and the reason "parsing fields", whatever the
\* second token is.
C5_UnknownFieldReported ==
    (/\ pc # "idle"
     /\ v # <<>>
     /\ NumCommas(v) <= 1
     /\ Strip(Token(v, 1), Space) \notin DOMAIN fs)
        => err = <<[field |-> v, err |-> "parsing fields"]>>

C5_Witness ==
    /\ pc = "parsed"
    /\ NumCommas(v) = 1
    /\ fs # <<>>
    /\ Strip(Token(v, 1), Space) \notin DOMAIN fs
    /\ Strip(Token(v, 2), Space) \notin {ASC.name, DESC.name}
    /\ err = <<[field |-> v, err |-> "parsing fields"]>>

\* C6 (as stated): for a directive with exactly one comma whose first token is
\* a public name of the FieldSet and whose trimmed second token is not exactly
\* "ASC" or "DESC", Parse fails with reason "parsing direction" and no By.
C6_BadDirectionReported ==
    (/\ pc # "idle"
     /\ NumCommas(v) = 1
     /\ Token(v, 1) \in DOMAIN fs
     /\ Strip(Token(v, 2), Space) \notin {ASC.name, DESC.name})
        => (Outcome(by, err) = [by |-> ZeroBy, reason |-> "parsing direction"])

\* C6 (amended): the same when the first token, trimmed of its surrounding
\* spaces, is a public name of the FieldSet.
C6_TrimmedBadDirectionReported ==
    (/\ pc # "idle"
     /\ NumCommas(v) = 1
     /\ Strip(Token(v, 1), Space) \in DOMAIN fs
     /\ Strip(Token(v, 2), Space) \notin {ASC.name, DESC.name})
        => (Outcome(by, err) = [by |-> ZeroBy, reason |-> "parsing direction"])

C6_Witness ==
    /\ pc = "parsed"
    /\ NumCommas(v) = 1
    /\ Strip(Token(v, 1), Space) \in DOMAIN fs
    /\ Strip(Token(v, 2), Space) = <<"d", "e", "s", "c">>
    /\ Outcome(by, err) = [by |-> ZeroBy, reason |-> "parsing direction"]

\* C7: for a directive with more than one comma Parse fails with reason
\* "unknown order field", also when its first two segments are a public name
\* and a direction.
C7_TooManyParts ==
    (pc # "idle" /\ NumCommas(v) >= 2) =>
        (Outcome(by, err) = [by |-> ZeroBy, reason |-> "unknown order field"])

C7_Witness ==
    /\ pc = "parsed"
    /\ NumCommas(v) = 2
    /\ Token(v, 1) \in DOMAIN fs
    /\ Token(v, 2) \in {ASC.name, DESC.name}
    /\ Outcome(by, err) = [by |-> ZeroBy, reason |-> "unknown order field"]

C9_Stateless ==
    [][/\ fs' = fs
       /\ directions' = directions
       /\ (pc # "idle" /\ pc' = "parsed" /\ v' = v /\ defaultOrder' = defaultOrder)
              => (by' = by /\ err' = err)]_vars

\* a Field was given another storage identifier after the FieldSet copied it,
\* and Parse returns the identifier it had when it was copied
C9_Witness ==
    /\ pc = "parsed"
    /\ err = Nil
    /\ v # <<>>
    /\ by.field \in Members
    /\ ret.name = by.field.name
    /\ ret.storage # by.field.storage
    /\ fields[LastIndex(ret.name)] = ret
    /\ fs[ret.name] = by.field

\* C10 (as stated): the FieldSet has one entry per public name of the list,
\* the last Field of the list with that name, and Parse of a name that occurs
\* several times renders the storage identifier of the last of them.
C10_LastWins ==
    /\ DOMAIN fs = {fields[i].name : i \in DOMAIN fields}
    /\ \A n \in DOMAIN fs :
        /\ fs[n] = fields[LastIndex(n)]
        /\ (Duplicated(n) /\ pc # "idle" /\ v = n) =>
            /\ err = Nil
            /\ by.field = fields[LastIndex(n)]
            /\ pc = "rendered" => clause.val = Fragment(fields[LastIndex(n)], ASC)

\* C10 (amended): the same, Parse of the name rendering the last Field's
\* storage identifier when the name is non-empty, holds no comma and neither
\* begins nor ends with a space.
C10_LastWinsPlainName ==
    /\ DOMAIN fs = {fields[i].name : i \in DOMAIN fields}
    /\ \A n \in DOMAIN fs :
        /\ fs[n] = fields[LastIndex(n)]
        /\ (Duplicated(n) /\ n # <<>> /\ Plain(n) /\ pc # "idle" /\ v = n) =>
            /\ err = Nil
            /\ by.field = fields[LastIndex(n)]
            /\ pc = "rendered" => clause.val = Fragment(fields[LastIndex(n)], ASC)

C10_Witness ==
    /\ pc = "rendered"
    /\ Len(fields) >= 2
    /\ fields[1].name = v
    /\ fields[2].name = v
    /\ fields[1].storage # fields[2].storage
    /\ clause.val = Fragment(fields[LastIndex(v)], ASC)

====
